---- MODULE Spec2Model ----
(***************************************************************************)
(* HexShare: access-control strategies (Edge / PDP / Hybrid), the bitmask  *)
(* policy evaluator and the share-token (capability token) service with    *)
(* its in-process revocation ledger.                                       *)
(*                                                                         *)
(* Time is counted in ticks; TicksPerSecond ticks make one second, so that *)
(* datetimes carry a sub-second part while the JWT "exp" claim is a whole  *)
(* number of seconds.                                                      *)
(***************************************************************************)
EXTENDS Integers, Sequences, FiniteSets, TLC

VARIABLES now, revoked_jtis, revoked_ever, held, last, ac, ev, storage, events, norm, dec

vars == <<now, revoked_jtis, revoked_ever, held, last, ac, ev, storage, events, norm, dec>>

(***************************************************************************)
(* Bounds                                                                  *)
(***************************************************************************)
MaxTime == 3
TicksPerSecond == 2

Ticks == 0..MaxTime

(***************************************************************************)
(* datetime values: a wall-clock instant (read as UTC) and whether the     *)
(* object is timezone-aware.  Ordering a naive against an aware datetime   *)
(* raises TypeError in Python.                                             *)
(***************************************************************************)
Datetimes == [ticks : Ticks, aware : BOOLEAN]

utc_now(t) == [ticks |-> t, aware |-> TRUE]

dt_comparable(a, b) == a.aware = b.aware

\* int(expires_at.replace(tzinfo=timezone.utc).timestamp())
exp_claim(expires_at) == expires_at.ticks \div TicksPerSecond

(***************************************************************************)
(* Share tokens                                                            *)
(***************************************************************************)
Secret == "secret"
OtherSecret == "other"

Jtis == {"j1", "j2"}
NoPayload ==
  [sub |-> "", tid |-> "", lid |-> "", jti |-> "", exp |-> 0,
   perms |-> [download |-> FALSE, print |-> FALSE], require_email |-> FALSE]

\* A byte string that is not a JWS at all.
MalformedToken == [form |-> "garbage", key |-> "", payload |-> NoPayload]

encode_share_token(tenant_id, document_id, link_id, jti, expires_at, permissions, require_email) ==
  [form |-> "jws",
   key |-> Secret,
   payload |-> [sub |-> document_id,
                tid |-> tenant_id,
                lid |-> link_id,
                jti |-> jti,
                exp |-> exp_claim(expires_at),
                perms |-> permissions,
                require_email |-> require_email]]

\* generate_jti: uuid.uuid4().hex, the draw of the random identifier given.
generate_jti(uuid4) == uuid4

\* The same payload signed with a key that is not the adapter's secret.
forge(token) == [token EXCEPT !.key = OtherSecret]

\* jwt.decode(token, secret, algorithms=["HS256"]): structure, signature,
\* then the exp claim against the current time (now as fractional seconds).
jwt_decode(token, key, t) ==
  IF token.form # "jws" THEN [kind |-> "DecodeError", payload |-> NoPayload]
  ELSE IF token.key # key THEN [kind |-> "InvalidSignatureError", payload |-> NoPayload]
  ELSE IF token.payload.exp * TicksPerSecond <= t
       THEN [kind |-> "ExpiredSignatureError", payload |-> NoPayload]
  ELSE [kind |-> "ok", payload |-> token.payload]

EmptyLedger == [k \in {} |-> utc_now(0)]

\* A variant of the purge that collects every entry.
expired_keys_whatever_expiry(ledger, t) == DOMAIN ledger

\* A variant of the purge that keeps an entry expiring at this very instant.
expired_keys_strictly_before(ledger, t) == {k \in DOMAIN ledger : ledger[k].ticks < t}

\* Entries the purge of decode_share_token collects: exp <= now.
expired_keys(ledger, t) == {k \in DOMAIN ledger : ledger[k].ticks <= t}

\* The error raised for a revoked jti: jwt.InvalidTokenError("Token has been revoked")
Revoked == "InvalidTokenError"

decode_share_token(token, ledger, t) ==
  LET r == jwt_decode(token, Secret, t) IN
  IF r.kind # "ok"
  THEN [kind |-> r.kind, payload |-> NoPayload, ledger |-> ledger]
  ELSE IF \E k \in DOMAIN ledger : ~dt_comparable(ledger[k], utc_now(t))
  THEN [kind |-> "TypeError", payload |-> NoPayload, ledger |-> ledger]
  ELSE LET purged == [k \in (DOMAIN ledger) \ expired_keys(ledger, t) |-> ledger[k]] IN
       IF r.payload.jti \in DOMAIN purged
       THEN [kind |-> Revoked, payload |-> NoPayload, ledger |-> purged]
       ELSE [kind |-> "ok", payload |-> r.payload, ledger |-> purged]

\* A variant that records nothing.
revoke_jti_recording_nothing(ledger, jti, expires_at) == ledger

revoke_jti(ledger, jti, expires_at) ==
  [k \in (DOMAIN ledger) \cup {jti} |-> IF k = jti THEN expires_at ELSE ledger[k]]

\* ShareTokenClaims built by ShareTokenDependency.__call__ from the claims;
\* "x or y" falls through to the alternative key (absent, hence None) when
\* the first value is falsy.
None == "None"
py_or(a, b) == IF a = "" THEN b ELSE a

ShareTokenClaims(claims) ==
  [tenant_id |-> py_or(claims.tid, None),
   document_id |-> py_or(claims.sub, None),
   link_id |-> py_or(claims.lid, None),
   jti |-> claims.jti,
   expires_at |-> claims.exp,
   permissions |-> claims.perms,
   require_email |-> claims.require_email]

\* ShareTokenDependency.__call__: any exception of decode becomes HTTP 401.
ShareTokenDependency(outcome) ==
  IF outcome.kind # "ok"
  THEN [status |-> 401, detail |-> "Invalid or expired share token", claims |-> ShareTokenClaims(NoPayload)]
  ELSE [status |-> 200, detail |-> "", claims |-> ShareTokenClaims(outcome.payload)]

(***************************************************************************)
(* Share links: MemoryStorage and LinkService                              *)
(***************************************************************************)
\* datetime.utcnow(): the same instant as a timezone-naive object.
utcnow(t) == [ticks |-> t, aware |-> FALSE]

\* dt + timedelta(seconds=n)
plus_seconds(dt, n) == [dt EXCEPT !.ticks = @ + n * TicksPerSecond]

\* Optional[datetime]
NoDatetime == [present |-> FALSE, value |-> utcnow(0)]
SomeDatetime(dt) == [present |-> TRUE, value |-> dt]

ShareLink(id, tenant_id, document_id, jti, expires_at, can_download, can_print, require_email, revoked_at) ==
  [id |-> id, tenant_id |-> tenant_id, document_id |-> document_id, jti |-> jti,
   expires_at |-> expires_at, can_download |-> can_download, can_print |-> can_print,
   require_email |-> require_email, revoked_at |-> revoked_at]

NoLink == ShareLink("", "", "", "", utcnow(0), FALSE, FALSE, FALSE, NoDatetime)

\* MemoryStorage: _id_counter and _share_links.  Identifiers come from one
\* counter, so the per-tenant dictionaries are kept as one mapping from id
\* and a lookup compares the tenant.
NoStorage == [id_counter |-> 0, share_links |-> [k \in {} |-> NoLink]]

generate_id(st, prefix) ==
  [storage |-> [st EXCEPT !.id_counter = @ + 1],
   id |-> prefix \o "_" \o ToString(st.id_counter + 1)]

save_share_link(st, link) ==
  [st EXCEPT !.share_links =
     [k \in (DOMAIN @) \cup {link.id} |-> IF k = link.id THEN link ELSE @[k]]]

get_share_link(st, tenant_id, link_id) ==
  IF link_id \in DOMAIN st.share_links /\ st.share_links[link_id].tenant_id = tenant_id
  THEN [found |-> TRUE, link |-> st.share_links[link_id]]
  ELSE [found |-> FALSE, link |-> NoLink]

MemoryStorage_revoke_share_link(st, tenant_id, link_id, revoked_at) ==
  IF get_share_link(st, tenant_id, link_id).found
  THEN [st EXCEPT !.share_links[link_id].revoked_at = revoked_at]
  ELSE st

\* What publish_event is called with: tenant, event type and the link id of
\* the payload.  The events published so far are kept as a set.
Event(tenant_id, type, link_id) == [tenant_id |-> tenant_id, type |-> type, link_id |-> link_id]

\* LinkService.create_share_link, given the identifier generate_jti drew.
create_share_link(st, tenant_id, document_id, expires_in_seconds, can_download, can_print, require_email, jti, t) ==
  LET g == generate_id(st, "link")
      share_link == ShareLink(g.id, tenant_id, document_id, jti,
                              plus_seconds(utcnow(t), expires_in_seconds),
                              can_download, can_print, require_email, NoDatetime)
  IN  [storage |-> save_share_link(g.storage, share_link), link |-> share_link,
       event |-> Event(tenant_id, "link.created", g.id)]

\* LinkService.generate_share_token
generate_share_token(link) ==
  encode_share_token(link.tenant_id, link.document_id, link.id, link.jti, link.expires_at,
                     [download |-> link.can_download, print |-> link.can_print],
                     link.require_email)

\* A variant that marks the record and leaves the ledger alone.
revoke_share_link_record_only(st, ledger, tenant_id, link_id, t) ==
  LET got == get_share_link(st, tenant_id, link_id) IN
  IF ~got.found THEN [found |-> FALSE, storage |-> st, ledger |-> ledger, events |-> {}]
  ELSE [found |-> TRUE,
        storage |-> MemoryStorage_revoke_share_link(st, tenant_id, link_id, SomeDatetime(utcnow(t))),
        ledger |-> ledger,
        events |-> {Event(tenant_id, "link.revoked", link_id)}]

\* A variant that looks the link up by its id alone, whatever the tenant.
revoke_share_link_of_any_tenant(st, ledger, tenant_id, link_id, t) ==
  IF link_id \notin DOMAIN st.share_links
  THEN [found |-> FALSE, storage |-> st, ledger |-> ledger, events |-> {}]
  ELSE [found |-> TRUE,
        storage |-> [st EXCEPT !.share_links[link_id].revoked_at = SomeDatetime(utcnow(t))],
        ledger |-> revoke_jti(ledger, st.share_links[link_id].jti, st.share_links[link_id].expires_at),
        events |-> {Event(tenant_id, "link.revoked", link_id)}]

\* LinkService.revoke_share_link: nothing for a link the tenant does not
\* have; otherwise the record is marked and the jti entered in the ledger
\* with the link's expires_at.
revoke_share_link(st, ledger, tenant_id, link_id, t) ==
  LET got == get_share_link(st, tenant_id, link_id) IN
  IF ~got.found THEN [found |-> FALSE, storage |-> st, ledger |-> ledger, events |-> {}]
  ELSE [found |-> TRUE,
        storage |-> MemoryStorage_revoke_share_link(st, tenant_id, link_id, SomeDatetime(utcnow(t))),
        ledger |-> revoke_jti(ledger, got.link.jti, got.link.expires_at),
        events |-> {Event(tenant_id, "link.revoked", link_id)}]

\* TenantAuthDependency.__call__, given whether an Authorization header came
\* and what decode_share_token yielded for its token.
NoTenantPrincipal == [tenant_id |-> None, user_id |-> None, roles |-> None]

TenantAuthDependency(credentials, outcome) ==
  IF ~credentials
  THEN [status |-> 401, detail |-> "Missing Authorization header", principal |-> NoTenantPrincipal]
  ELSE IF outcome.kind # "ok"
  THEN [status |-> 401, detail |-> "Invalid or expired token", principal |-> NoTenantPrincipal]
  ELSE LET tenant_id == py_or(outcome.payload.tid, None)
           user_id == py_or(outcome.payload.sub, None) IN
       IF tenant_id = None \/ user_id = None
       THEN [status |-> 401, detail |-> "Token missing tenant or user claims",
             principal |-> NoTenantPrincipal]
       ELSE [status |-> 200, detail |-> "",
             principal |-> [tenant_id |-> tenant_id, user_id |-> user_id, roles |-> None]]

(***************************************************************************)
(* Python values held in a policy mapping (Mapping[str, Any])              *)
(***************************************************************************)
PyInt(n) == [t |-> "int", n |-> n, s |-> ""]
PyStr(s) == [t |-> "str", n |-> 0, s |-> s]
PyNone == [t |-> "NoneType", n |-> 0, s |-> ""]

py_truthy(v) ==
  CASE v.t = "int" -> v.n # 0
    [] v.t = "str" -> v.s # ""
    [] OTHER -> FALSE

\* int(v): an int is itself, a string is parsed as a decimal literal.
py_int(v) ==
  CASE v.t = "int" -> [ok |-> TRUE, n |-> v.n, err |-> ""]
    [] v.t = "str" /\ v.s = "3" -> [ok |-> TRUE, n |-> 3, err |-> ""]
    [] v.t = "str" /\ v.s = "12" -> [ok |-> TRUE, n |-> 12, err |-> ""]
    [] v.t = "str" -> [ok |-> FALSE, n |-> 0, err |-> "ValueError"]
    [] OTHER -> [ok |-> FALSE, n |-> 0, err |-> "TypeError"]

\* policy.get(resource, default)
policy_get(policy, resource, default) ==
  IF resource \in DOMAIN policy THEN policy[resource] ELSE default

\* Python's a & b for b >= 0 (two's complement for a negative a).
RECURSIVE BitAnd(_, _)
BitAnd(a, b) ==
  IF b = 0 \/ a = 0 THEN 0
  ELSE (a % 2) * (b % 2) + 2 * BitAnd(a \div 2, b \div 2)

(***************************************************************************)
(* Action names are strings, modelled as sequences of characters so that   *)
(* str.upper() is computed character by character.                         *)
(***************************************************************************)
LowerCase == <<"a", "c", "d", "e", "g", "h", "i", "j", "l", "m", "n", "o", "p", "r", "s", "t", "u", "v", "w", "x">>
UpperCase == <<"A", "C", "D", "E", "G", "H", "I", "J", "L", "M", "N", "O", "P", "R", "S", "T", "U", "V", "W", "X">>

upper_char(c) ==
  IF \E i \in DOMAIN LowerCase : LowerCase[i] = c
  THEN UpperCase[CHOOSE i \in DOMAIN LowerCase : LowerCase[i] = c]
  ELSE c

upper(str) == [i \in DOMAIN str |-> upper_char(str[i])]

\* HEXIAMAction.__members__ in declaration order; member k has value 1 << (k-1).
HEXIAMActionNames ==
  << <<"R", "E", "A", "D">>,
     <<"W", "R", "I", "T", "E">>,
     <<"D", "E", "L", "E", "T", "E">>,
     <<"A", "P", "P", "R", "O", "V", "E">>,
     <<"R", "E", "J", "E", "C", "T">>,
     <<"E", "X", "E", "C", "U", "T", "E">>,
     <<"A", "S", "S", "I", "G", "N">>,
     <<"M", "A", "N", "A", "G", "E">>,
     <<"E", "X", "P", "O", "R", "T">>,
     <<"I", "M", "P", "O", "R", "T">>,
     <<"A", "C", "T", "I", "V", "A", "T", "E">>,
     <<"A", "R", "C", "H", "I", "V", "E">> >>

HEXIAMAction__members == {HEXIAMActionNames[k] : k \in DOMAIN HEXIAMActionNames}

HEXIAMAction(key) ==
  2 ^ ((CHOOSE k \in DOMAIN HEXIAMActionNames : HEXIAMActionNames[k] = key) - 1)

\* HexIamBitmaskEvaluator.evaluate: the outcome is a returned bool or a raised error.
evaluate_case_sensitive(policy, action, resource) ==
  LET got == policy_get(policy, resource, PyInt(0))
      bitmask == py_int(IF py_truthy(got) THEN got ELSE PyInt(0))
  IN  IF ~bitmask.ok THEN [kind |-> bitmask.err, value |-> FALSE]
      ELSE IF action \notin HEXIAMAction__members THEN [kind |-> "ok", value |-> FALSE]
      ELSE [kind |-> "ok", value |-> BitAnd(bitmask.n, HEXIAMAction(action)) = HEXIAMAction(action)]

evaluate(policy, action, resource) ==
  LET got == policy_get(policy, resource, PyInt(0))
      bitmask == py_int(IF py_truthy(got) THEN got ELSE PyInt(0))
      key == upper(action)
  IN  IF ~bitmask.ok THEN [kind |-> bitmask.err, value |-> FALSE]
      ELSE IF key \notin HEXIAMAction__members THEN [kind |-> "ok", value |-> FALSE]
      ELSE LET required == HEXIAMAction(key)
           IN  [kind |-> "ok", value |-> BitAnd(bitmask.n, required) = required]

(***************************************************************************)
(* Principal, ResourceCtx and the outcome of a call (a returned Principal  *)
(* or a raised exception, named by its class)                              *)
(***************************************************************************)
EmptyPolicy == [k \in {} |-> PyInt(0)]

\* policy_is_none: the policy field holds None rather than a mapping.
Principal(tenant_id, subject, policy, policy_is_none) ==
  [tenant_id |-> tenant_id, subject |-> subject, policy |-> policy, policy_is_none |-> policy_is_none]

NoPrincipal == Principal(None, None, EmptyPolicy, TRUE)

\* "not principal.policy"
policy_falsy(principal) == principal.policy_is_none \/ DOMAIN principal.policy = {}

Returned(principal) == [kind |-> "Principal", reason |-> "", principal |-> principal]
Raised(class, reason) == [kind |-> class, reason |-> reason, principal |-> NoPrincipal]
NoOutcome == [kind |-> "none", reason |-> "", principal |-> NoPrincipal]

\* ResourceCtx(type, id, attrs) or None (present = FALSE); id may be None.
ResourceCtx(type, id) == [present |-> TRUE, type |-> type, id |-> id]
NoResource == [present |-> FALSE, type |-> "", id |-> None]

(***************************************************************************)
(* HexIAM bearer tokens and the local authenticator                        *)
(***************************************************************************)
IamSecret == "iam_secret"
expected_aud == "hexshare"

\* HEXIAM_ISS_PREFIX, and an issuer URL, as sequences of path segments.
expected_iss_prefix == <<"https://iam.example">>
IamIssuer == <<"https://iam.example", "t1">>
ForeignIssuer == <<"https://evil.example", "t1">>

Bearer(key, has_iat, aud, sub, has_policy, policy) ==
  [form |-> "jws", key |-> key,
   claims |-> [exp |-> 1, has_exp |-> TRUE, has_iat |-> has_iat, aud |-> aud, iss |-> IamIssuer,
               tenant_id |-> "t1", sub |-> sub, has_policy |-> has_policy, policy |-> policy]]

MalformedBearer == [Bearer("", FALSE, "", "", FALSE, EmptyPolicy) EXCEPT !.form = "garbage"]

\* HEXIAMAuthenticator._decode_token: jwt.decode with options
\* require=["exp","iat"], verify_aud=bool(expected_aud), audience=expected_aud.
\* PyJWT verifies the signature, then the required claims, exp, and aud.
decode_token(token, t) ==
  IF token.form # "jws" THEN "DecodeError"
  ELSE IF token.key # IamSecret THEN "InvalidSignatureError"
  ELSE IF ~token.claims.has_exp \/ ~token.claims.has_iat THEN "MissingRequiredClaimError"
  ELSE IF token.claims.exp * TicksPerSecond <= t THEN "ExpiredSignatureError"
  ELSE IF expected_aud # None /\ token.claims.aud # expected_aud THEN "InvalidAudienceError"
  ELSE "ok"

\* HEXIAMAuthenticator.authenticate
authenticate(token, t) ==
  LET err == decode_token(token, t) IN
  IF err # "ok" THEN Raised(err, "")
  ELSE Returned(Principal(token.claims.tenant_id, token.claims.sub,
                          token.claims.policy, ~token.claims.has_policy))

\* A variant that lets a principal without a policy through unevaluated.
ClaimsAuthorizer_authorize_skipping_absent_policy(principal, action, resource_id) ==
  LET ok == evaluate(principal.policy, action, resource_id)
  IN  IF policy_falsy(principal) THEN NoOutcome
      ELSE IF ok.kind # "ok" THEN Raised(ok.kind, "")
      ELSE IF ~ok.value THEN Raised("AuthorizationError", "forbidden")
      ELSE NoOutcome

\* A variant that raises only what the evaluator raised.
ClaimsAuthorizer_authorize_ignoring_verdict(principal, action, resource_id) ==
  LET ok == evaluate(IF policy_falsy(principal) THEN EmptyPolicy ELSE principal.policy,
                     action, resource_id)
  IN  IF ok.kind # "ok" THEN Raised(ok.kind, "") ELSE NoOutcome

\* ClaimsAuthorizer.authorize: evaluates principal.policy or {}.
ClaimsAuthorizer_authorize(principal, action, resource_id) ==
  LET ok == evaluate(IF policy_falsy(principal) THEN EmptyPolicy ELSE principal.policy,
                     action, resource_id)
  IN  IF ok.kind # "ok" THEN Raised(ok.kind, "")
      ELSE IF ~ok.value THEN Raised("AuthorizationError", "forbidden")
      ELSE NoOutcome

\* One run of EdgeAccessControl.authorize: what the authenticator yielded,
\* whether the authorizer was invoked and what it yielded, and the outcome.
EdgeRun(authn, authz_calls, authz, outcome) ==
  [authn |-> authn, authz_calls |-> authz_calls, authz |-> authz, outcome |-> outcome]

\* A variant that returns the Principal whatever the authorizer raised.
EdgeAccessControl_run_ignoring_authorizer(bearer_token, action, resource, context, t) ==
  LET authn == authenticate(bearer_token, t) IN
  IF authn.kind # "Principal" THEN EdgeRun(authn, 0, NoOutcome, authn)
  ELSE IF ~resource.present THEN EdgeRun(authn, 0, NoOutcome, Raised("AttributeError", ""))
  ELSE EdgeRun(authn, 1, ClaimsAuthorizer_authorize(authn.principal, action, resource.id), authn)

\* EdgeAccessControl.authorize: authenticate, read resource.id, authorize.
EdgeAccessControl_run(bearer_token, action, resource, context, t) ==
  LET authn == authenticate(bearer_token, t) IN
  IF authn.kind # "Principal" THEN EdgeRun(authn, 0, NoOutcome, authn)
  ELSE IF ~resource.present THEN EdgeRun(authn, 0, NoOutcome, Raised("AttributeError", ""))
  ELSE LET authz == ClaimsAuthorizer_authorize(authn.principal, action, resource.id) IN
       EdgeRun(authn, 1, authz, IF authz.kind # "none" THEN authz ELSE authn)

EdgeAccessControl_authorize(bearer_token, action, resource, context, t) ==
  EdgeAccessControl_run(bearer_token, action, resource, context, t).outcome

(***************************************************************************)
(* The remote decision endpoint and the PDP strategy                       *)
(***************************************************************************)
\* What client.post yields: an HTTP response or a transport exception.
\* allow and reason are "missing" when the JSON body has no such key.
HttpResponse(status, json_ok, allow, reason, has_principal, principal) ==
  [kind |-> "response", status |-> status, json_ok |-> json_ok, allow |-> allow,
   reason |-> reason, has_principal |-> has_principal, principal |-> principal]

TransportError(class) ==
  [HttpResponse(0, FALSE, "missing", "missing", FALSE, NoPrincipal) EXCEPT !.kind = class]

\* PDPAccessControl.authorize, given what the POST to /pdp/decide yields.
PDPAccessControl_authorize(bearer_token, action, resource, context, resp) ==
  IF resp.kind # "response" THEN Raised(resp.kind, "")
  ELSE IF resp.status >= 400 THEN Raised("AccessDenied", "PDP error: " \o ToString(resp.status))
  ELSE IF ~resp.json_ok THEN Raised("JSONDecodeError", "")
  ELSE IF resp.allow # "true"
       THEN Raised("AccessDenied", IF resp.reason = "missing" THEN "forbidden" ELSE resp.reason)
  ELSE IF ~resp.has_principal THEN Returned(Principal(None, None, EmptyPolicy, FALSE))
  ELSE Returned([resp.principal EXCEPT !.policy_is_none = FALSE])

(***************************************************************************)
(* Inputs                                                                  *)
(***************************************************************************)
lower_char(c) ==
  IF \E i \in DOMAIN UpperCase : UpperCase[i] = c
  THEN LowerCase[CHOOSE i \in DOMAIN UpperCase : UpperCase[i] = c]
  ELSE c

lower(str) == [i \in DOMAIN str |-> lower_char(str[i])]
capitalize(str) == [i \in DOMAIN str |-> IF i = 1 THEN upper_char(str[i]) ELSE lower_char(str[i])]

UnknownActionNames == { <<"v", "i", "e", "w">>, <<"r", "e", "a", "d", "s">>, <<>>, <<"V", "I", "E", "W">> }

ActionNames ==
  HEXIAMAction__members
    \cup {lower(n) : n \in HEXIAMAction__members}
    \cup {capitalize(n) : n \in HEXIAMAction__members}
    \cup UnknownActionNames

PolicyResources == {"doc_1", "doc_2"}
ResourceIds == PolicyResources \cup {None}

PolicyValues ==
  {PyInt(0), PyInt(1), PyInt(3), PyInt(6), PyInt(2048), PyInt(4095), PyInt(-1),
   PyStr("abc"), PyStr("3"), PyStr(""), PyNone}

Policies == UNION {[D -> PolicyValues] : D \in SUBSET PolicyResources}

ShareProfiles ==
  { [tenant_id |-> "t1", document_id |-> "d1", link_id |-> "l1",
     permissions |-> [download |-> TRUE, print |-> FALSE], require_email |-> FALSE],
    [tenant_id |-> "t2", document_id |-> "d2", link_id |-> "l2",
     permissions |-> [download |-> FALSE, print |-> TRUE], require_email |-> TRUE] }

ShareArgs(p, jti, expires_at) ==
  [tenant_id |-> p.tenant_id, document_id |-> p.document_id, link_id |-> p.link_id,
   jti |-> jti, expires_at |-> expires_at, permissions |-> p.permissions,
   require_email |-> p.require_email]

NoArgs ==
  [tenant_id |-> "", document_id |-> "", link_id |-> "", jti |-> "",
   expires_at |-> utc_now(0), permissions |-> [download |-> FALSE, print |-> FALSE],
   require_email |-> FALSE]

NoHeld == [args |-> NoArgs, token |-> MalformedToken]
NoLast == [op |-> "none", presented |-> "", kind |-> "none", payload |-> NoPayload]
NoEval == [policy |-> EmptyPolicy, action |-> <<>>, resource |-> None,
           out |-> [kind |-> "pending", value |-> FALSE]]

\* A claim of a token or of a remote principal: absent, or a string.
AbsentClaim == [present |-> FALSE, value |-> <<>>]
StrClaim(s) == [present |-> TRUE, value |-> s]

NoNormalized == [scopes |-> <<>>, roles |-> <<>>]
NoNorm == [pc |-> "idle", scope |-> AbsentClaim, role |-> AbsentClaim,
           local |-> NoNormalized, pdp |-> NoNormalized]

\* No decode_share_token call is in progress.
NoDecoding == [pc |-> "idle", jti |-> "", expired |-> {}, kind |-> "none"]

Presentations == {"genuine", "forged", "malformed"}

PolicyRW == [k \in {"doc_1"} |-> PyInt(3)]
PolicyBadEntry == [k \in {"doc_1"} |-> PyStr("abc")]

BearerTokens ==
  { Bearer(IamSecret, TRUE, expected_aud, "alice", TRUE, PolicyRW),
    Bearer(IamSecret, TRUE, expected_aud, "bob", FALSE, EmptyPolicy),
    Bearer(IamSecret, TRUE, expected_aud, "carol", TRUE, EmptyPolicy),
    Bearer(IamSecret, TRUE, expected_aud, "dave", TRUE, PolicyBadEntry),
    Bearer(OtherSecret, TRUE, expected_aud, "alice", TRUE, PolicyRW),
    Bearer(IamSecret, FALSE, expected_aud, "alice", TRUE, PolicyRW),
    Bearer(IamSecret, TRUE, "another-client", "alice", TRUE, PolicyRW),
    [Bearer(IamSecret, TRUE, expected_aud, "mallory", TRUE, PolicyRW) EXCEPT !.claims.iss = ForeignIssuer],
    Bearer(IamSecret, TRUE, expected_aud, None, TRUE, PolicyRW),
    MalformedBearer }

AcActions == { <<"r", "e", "a", "d">>, <<"W", "R", "I", "T", "E">>,
               <<"d", "e", "l", "e", "t", "e">>, <<"v", "i", "e", "w">> }

AcResources == {NoResource, ResourceCtx("document", "doc_1"), ResourceCtx("document", None)}
AcContexts == {None, "ctx"}

PdpPrincipal == Principal("t1", "pdp-subject", PolicyRW, FALSE)

PdpResponses ==
  { HttpResponse(200, TRUE, "true", "missing", TRUE, PdpPrincipal),
    HttpResponse(200, TRUE, "true", "missing", FALSE, NoPrincipal),
    HttpResponse(200, TRUE, "false", "scope_missing", FALSE, NoPrincipal),
    HttpResponse(200, TRUE, "false", "missing", TRUE, PdpPrincipal),
    HttpResponse(200, TRUE, "missing", "missing", TRUE, PdpPrincipal),
    HttpResponse(200, FALSE, "missing", "missing", FALSE, NoPrincipal),
    HttpResponse(302, TRUE, "true", "missing", TRUE, PdpPrincipal),
    HttpResponse(403, TRUE, "false", "scope_missing", FALSE, NoPrincipal),
    HttpResponse(500, FALSE, "missing", "missing", FALSE, NoPrincipal),
    TransportError("ReadTimeout"),
    TransportError("ConnectError") }

\* What an AccessControlPort implementation other than EdgeAccessControl may
\* yield when HybridAccessControl is constructed with it as its edge.
PortOutcomes ==
  { Returned(Principal("t1", "port-subject", PolicyRW, FALSE)),
    Returned(Principal("t1", "port-subject", EmptyPolicy, FALSE)),
    Returned(Principal("t1", "port-subject", EmptyPolicy, TRUE)),
    Raised("AccessDenied", "denied") }

NoCall ==
  [pc |-> "idle", strategy |-> "", edge_impl |-> "",
   bearer_token |-> MalformedBearer, action |-> <<>>, resource |-> NoResource, context |-> None,
   edge_calls |-> 0, pdp_calls |-> 0,
   pdp_args |-> [bearer_token |-> MalformedBearer, action |-> <<>>, resource |-> NoResource, context |-> None],
   pdp_response |-> TransportError("none"),
   authn |-> NoOutcome, authz_calls |-> 0, authz |-> NoOutcome,
   edge_outcome |-> NoOutcome, pdp_outcome |-> NoOutcome, result |-> NoOutcome]

(***************************************************************************)
(* Share-token service: JWTTokenAdapter behind ShareTokenDependency        *)
(***************************************************************************)
Tick ==
  /\ now < MaxTime
  /\ now' = now + 1
  /\ UNCHANGED <<revoked_jtis, revoked_ever, held, last, ac, ev, storage, events, norm, dec>>

\* generate_jti: a caller obtains an identifier and holds no token yet.
GenerateJti ==
  \E jti \in Jtis :
    /\ held' = [args |-> [NoArgs EXCEPT !.jti = generate_jti(jti)], token |-> MalformedToken]
    /\ last' = NoLast
    /\ UNCHANGED <<now, revoked_jtis, revoked_ever, ac, ev, storage, events, norm, dec>>

\* A caller mints a token and hands it to a visitor.
EncodeShareToken ==
  \E p \in ShareProfiles, jti \in Jtis, expires_at \in Datetimes :
    /\ held' = [args |-> ShareArgs(p, jti, expires_at),
                token |-> encode_share_token(p.tenant_id, p.document_id, p.link_id, jti,
                                             expires_at, p.permissions, p.require_email)]
    /\ last' = NoLast
    /\ UNCHANGED <<now, revoked_jtis, revoked_ever, ac, ev, storage, events, norm, dec>>

Presented(pres) ==
  CASE pres = "genuine" -> held.token
    [] pres = "forged" -> forge(held.token)
    [] OTHER -> MalformedToken

\* A visitor presents the held token (as issued, re-signed with another key,
\* or garbage) and decode_share_token runs, purge included.
DecodeShareToken ==
  \E pres \in Presentations :
    LET r == decode_share_token(Presented(pres), revoked_jtis, now) IN
    /\ revoked_jtis' = r.ledger
    /\ last' = [op |-> "decode", presented |-> pres, kind |-> r.kind, payload |-> r.payload]
    /\ UNCHANGED <<now, revoked_ever, held, ac, ev, storage, events, norm, dec>>

RevokeJti ==
  \E jti \in Jtis, expires_at \in Datetimes :
    /\ revoked_jtis' = revoke_jti(revoked_jtis, jti, expires_at)
    /\ revoked_ever' = revoked_ever \cup {jti}
    /\ UNCHANGED <<now, held, last, ac, ev, storage, events, norm, dec>>

InitToken ==
  /\ now = 0
  /\ revoked_jtis = EmptyLedger
  /\ revoked_ever = {}
  /\ held = NoHeld
  /\ last = NoLast
  /\ ac = NoCall
  /\ ev = NoEval
  /\ storage = NoStorage
  /\ events = {}
  /\ norm = NoNorm
  /\ dec = NoDecoding

NextToken == Tick \/ GenerateJti \/ EncodeShareToken \/ DecodeShareToken \/ RevokeJti

SpecToken == InitToken /\ [][NextToken]_vars

(***************************************************************************)
(* decode_share_token running in a worker thread (ShareTokenDependency is  *)
(* a plain callable) while revoke_jti runs on the event loop: the          *)
(* statements of lines 57-67 taken one at a time, with no lock.            *)
(***************************************************************************)
\* Line 57: jwt.decode has accepted a token carrying jti.
BeginDecode ==
  /\ dec.pc = "idle"
  /\ \E jti \in Jtis : dec' = [NoDecoding EXCEPT !.pc = "collect", !.jti = jti]
  /\ UNCHANGED <<now, revoked_jtis, revoked_ever, held, last, ac, ev, storage, events, norm>>

\* Line 62: the expired keys are collected, or the comparison raises.
CollectExpired ==
  /\ dec.pc = "collect"
  /\ dec' = IF \E k \in DOMAIN revoked_jtis : ~dt_comparable(revoked_jtis[k], utc_now(now))
            THEN [dec EXCEPT !.pc = "done", !.kind = "TypeError"]
            ELSE [dec EXCEPT !.pc = "pop", !.expired = expired_keys(revoked_jtis, now)]
  /\ UNCHANGED <<now, revoked_jtis, revoked_ever, held, last, ac, ev, storage, events, norm>>

\* Lines 63-64: one collected key is popped, whatever it maps to by now.
PopExpired ==
  /\ dec.pc = "pop"
  /\ \E key \in dec.expired :
       /\ revoked_jtis' = [k \in (DOMAIN revoked_jtis) \ {key} |-> revoked_jtis[k]]
       /\ dec' = [dec EXCEPT !.expired = @ \ {key}]
  /\ UNCHANGED <<now, revoked_ever, held, last, ac, ev, storage, events, norm>>

\* Lines 65-67: the revocation check.
CheckRevoked ==
  /\ dec.pc = "pop" /\ dec.expired = {}
  /\ dec' = [dec EXCEPT !.pc = "done",
                        !.kind = IF dec.jti \in DOMAIN revoked_jtis THEN Revoked ELSE "ok"]
  /\ UNCHANGED <<now, revoked_jtis, revoked_ever, held, last, ac, ev, storage, events, norm>>

ReturnDecode ==
  /\ dec.pc = "done"
  /\ dec' = NoDecoding
  /\ UNCHANGED <<now, revoked_jtis, revoked_ever, held, last, ac, ev, storage, events, norm>>

NextRace ==
  Tick \/ RevokeJti \/ BeginDecode \/ CollectExpired \/ PopExpired \/ CheckRevoked \/ ReturnDecode

SpecRace == InitToken /\ [][NextRace]_vars

(***************************************************************************)
(* Scopes and roles of a Principal, as the local authenticator and the PDP *)
(* normalization build them.  Strings are sequences of characters.         *)
(***************************************************************************)
MaxScopeLen == 3
ScopeChars == {"a", "b", " "}
ScopeStrings == UNION {[1..n -> ScopeChars] : n \in 0..MaxScopeLen}
ScopeClaims == {AbsentClaim} \cup {StrClaim(s) : s \in ScopeStrings}
RoleClaims == {AbsentClaim, StrClaim(<<>>), StrClaim(<<"a">>)}

\* claims.get(name) or ""
get_or_empty(claim) == IF claim.present THEN claim.value ELSE <<>>

\* str.split(" "): cut at every single space, empty pieces kept.
RECURSIVE split_sep(_)
split_sep(s) ==
  IF \A i \in 1..Len(s) : s[i] # " " THEN <<s>>
  ELSE LET i == CHOOSE j \in 1..Len(s) : s[j] = " " /\ \A h \in 1..(j - 1) : s[h] # " " IN
       <<SubSeq(s, 1, i - 1)>> \o split_sep(SubSeq(s, i + 1, Len(s)))

\* str.split(): the runs of characters between whitespace, none of them empty.
non_empty(piece) == piece # <<>>
split(s) == SelectSeq(split_sep(s), non_empty)

\* (role,) if role else tuple()
roles(claim) == IF get_or_empty(claim) # <<>> THEN <<claim.value>> ELSE <<>>

\* HEXIAMAuthenticator.authenticate: scopes and roles
authenticate_scopes_roles(scope, role) ==
  [scopes |-> split_sep(get_or_empty(scope)), roles |-> roles(role)]

\* PDPAccessControl.authorize: scopes and roles of the remote principal
pdp_scopes_roles(scope, role) ==
  [scopes |-> split(get_or_empty(scope)), roles |-> roles(role)]

Normalize ==
  /\ norm.pc = "idle"
  /\ norm' = [norm EXCEPT !.pc = "done",
                          !.local = authenticate_scopes_roles(norm.scope, norm.role),
                          !.pdp = pdp_scopes_roles(norm.scope, norm.role)]
  /\ UNCHANGED <<now, revoked_jtis, revoked_ever, held, last, ac, ev, storage, events, dec>>

InitNorm ==
  /\ now = 0
  /\ revoked_jtis = EmptyLedger
  /\ revoked_ever = {}
  /\ held = NoHeld
  /\ last = NoLast
  /\ ac = NoCall
  /\ ev = NoEval
  /\ storage = NoStorage
  /\ events = {}
  /\ dec = NoDecoding
  /\ \E scope \in ScopeClaims, role \in RoleClaims :
       norm = [NoNorm EXCEPT !.scope = scope, !.role = role]

NextNorm == Normalize

SpecNorm == InitNorm /\ [][NextNorm]_vars

(***************************************************************************)
(* Share link lifecycle                                                    *)
(***************************************************************************)
ExpiresInSeconds == {0, 1}
Tenants == {p.tenant_id : p \in ShareProfiles}
LinkIds == {"link_" \o ToString(n) : n \in 1..Cardinality(Jtis)}

CreateShareLink ==
  \E p \in ShareProfiles, expires_in_seconds \in ExpiresInSeconds,
     jti \in Jtis \ {storage.share_links[k].jti : k \in DOMAIN storage.share_links} :
    LET c == create_share_link(storage, p.tenant_id, p.document_id, expires_in_seconds,
                               p.permissions.download, p.permissions.print,
                               p.require_email, generate_jti(jti), now) IN
    /\ storage' = c.storage
    /\ events' = events \cup {c.event}
    /\ UNCHANGED <<now, revoked_jtis, revoked_ever, held, last, ac, ev, norm, dec>>

\* A tenant user obtains the token of a stored link and hands it to a visitor.
GenerateShareToken ==
  \E k \in DOMAIN storage.share_links :
    LET link == storage.share_links[k] IN
    /\ held' = [args |-> [tenant_id |-> link.tenant_id, document_id |-> link.document_id,
                          link_id |-> link.id, jti |-> link.jti, expires_at |-> link.expires_at,
                          permissions |-> [download |-> link.can_download, print |-> link.can_print],
                          require_email |-> link.require_email],
                token |-> generate_share_token(link)]
    /\ last' = NoLast
    /\ UNCHANGED <<now, revoked_jtis, revoked_ever, ac, ev, storage, events, norm, dec>>

\* A tenant user revokes the link of that id.
RevokeShareLinkOf(tenant_id, link_id) ==
  LET r == revoke_share_link(storage, revoked_jtis, tenant_id, link_id, now) IN
  /\ storage' = r.storage
  /\ revoked_jtis' = r.ledger
  /\ events' = events \cup r.events
  /\ revoked_ever' = IF r.found THEN revoked_ever \cup {storage.share_links[link_id].jti}
                     ELSE revoked_ever
  /\ last' = [op |-> "revoke_share_link", presented |-> link_id,
              kind |-> IF r.found THEN "revoked" ELSE "no such link", payload |-> NoPayload]
  /\ UNCHANGED <<now, held, ac, ev, norm, dec>>

RevokeShareLink ==
  \E tenant_id \in Tenants, link_id \in LinkIds : RevokeShareLinkOf(tenant_id, link_id)

NextLink == Tick \/ CreateShareLink \/ GenerateShareToken \/ RevokeShareLink \/ DecodeShareToken

SpecLink == InitToken /\ [][NextLink]_vars

(***************************************************************************)
(* Policy evaluator                                                        *)
(***************************************************************************)
Evaluate ==
  /\ ev.out.kind = "pending"
  /\ ev' = [ev EXCEPT !.out = evaluate(ev.policy, ev.action, ev.resource)]
  /\ UNCHANGED <<now, revoked_jtis, revoked_ever, held, last, ac, storage, events, norm, dec>>

InitEval ==
  /\ now = 0
  /\ revoked_jtis = EmptyLedger
  /\ revoked_ever = {}
  /\ held = NoHeld
  /\ last = NoLast
  /\ ac = NoCall
  /\ storage = NoStorage
  /\ events = {}
  /\ norm = NoNorm
  /\ dec = NoDecoding
  /\ \E policy \in Policies, action \in ActionNames, resource \in ResourceIds :
       ev = [policy |-> policy, action |-> action, resource |-> resource,
             out |-> [kind |-> "pending", value |-> FALSE]]

NextEval == Evaluate

SpecEval == InitEval /\ [][NextEval]_vars

(***************************************************************************)
(* Access-control strategies.  One authorize call at a time; its awaits    *)
(* (the edge step, the POST to the decision endpoint) are separate steps.  *)
(***************************************************************************)
Authorize ==
  /\ ac.pc = "idle"
  /\ \E strategy \in {"edge", "pdp", "hybrid"}, edge_impl \in {"EdgeAccessControl", "port"},
        bearer_token \in BearerTokens, action \in AcActions,
        resource \in AcResources, context \in AcContexts :
       /\ strategy # "hybrid" => edge_impl = "EdgeAccessControl"
       /\ ac' = [NoCall EXCEPT !.pc = IF strategy = "pdp" THEN "pdp" ELSE "edge",
                               !.strategy = strategy, !.edge_impl = edge_impl,
                               !.bearer_token = bearer_token, !.action = action,
                               !.resource = resource, !.context = context]
  /\ UNCHANGED <<now, revoked_jtis, revoked_ever, held, last, ev, storage, events, norm, dec>>

\* asyncio.CancelledError, raised at the pending await of a cancelled call,
\* derives from BaseException and is not matched by "except Exception".
Cancelled == Raised("CancelledError", "")
is_Exception(o) == o.kind # "CancelledError"

\* Variants of the branch below, each a slip the code could contain.
hybrid_after_edge_always_pdp(o) == "pdp"

hybrid_after_edge_any_principal(o) ==
  IF o.kind = "Principal" THEN "done" ELSE "pdp"

hybrid_after_edge_fail_fast(o) ==
  IF o.kind = "Principal" /\ policy_falsy(o.principal) THEN "pdp" ELSE "done"

\* A variant whose except clause is bare, catching BaseException as well.
hybrid_after_edge_catching_cancellation(o) ==
  IF o.kind = "Principal" /\ ~policy_falsy(o.principal) THEN "done" ELSE "pdp"

\* HybridAccessControl.authorize: what follows the edge call.  Either the
\* Principal is returned, or the except branch hands over to PDP, or what
\* was raised is no Exception and leaves the method.
hybrid_after_edge(o) ==
  IF o.kind = "Principal" /\ ~policy_falsy(o.principal) THEN "done"
  ELSE IF o.kind # "Principal" /\ ~is_Exception(o) THEN "done"
  ELSE "pdp"

EdgeStep ==
  /\ ac.pc = "edge"
  /\ \E r \in (IF ac.edge_impl = "port"
               THEN {EdgeRun(NoOutcome, 0, NoOutcome, o) : o \in PortOutcomes}
               ELSE {EdgeAccessControl_run(ac.bearer_token, ac.action, ac.resource,
                                           ac.context, now)}) :
       LET o == r.outcome
           next == IF ac.strategy = "edge" THEN "done" ELSE hybrid_after_edge(o) IN
       ac' = [ac EXCEPT !.edge_calls = @ + 1,
                        !.authn = r.authn, !.authz_calls = r.authz_calls, !.authz = r.authz,
                        !.edge_outcome = o,
                        !.pc = next,
                        !.result = IF next = "done" THEN o ELSE NoOutcome]
  /\ UNCHANGED <<now, revoked_jtis, revoked_ever, held, last, ev, storage, events, norm, dec>>

PdpStep ==
  /\ ac.pc = "pdp"
  /\ \E resp \in PdpResponses :
       LET o == PDPAccessControl_authorize(ac.bearer_token, ac.action, ac.resource,
                                           ac.context, resp) IN
       ac' = [ac EXCEPT !.pdp_calls = @ + 1,
                        !.pdp_args = [bearer_token |-> ac.bearer_token, action |-> ac.action,
                                      resource |-> ac.resource, context |-> ac.context],
                        !.pdp_response = resp,
                        !.pdp_outcome = o,
                        !.pc = "done",
                        !.result = o]
  /\ UNCHANGED <<now, revoked_jtis, revoked_ever, held, last, ev, storage, events, norm, dec>>

\* The call returns or raises to its caller; the strategy objects keep no state.
Return ==
  /\ ac.pc = "done"
  /\ ac' = NoCall
  /\ UNCHANGED <<now, revoked_jtis, revoked_ever, held, last, ev, storage, events, norm, dec>>

\* The caller cancels the call while the edge step or the PDP request is
\* pending: the pending await raises CancelledError.
Cancel ==
  /\ ac.pc \in {"edge", "pdp"}
  /\ ac' = IF ac.pc = "edge"
           THEN LET next == IF ac.strategy = "edge" THEN "done" ELSE hybrid_after_edge(Cancelled) IN
                [ac EXCEPT !.edge_calls = @ + 1,
                           !.edge_outcome = Cancelled,
                           !.pc = next,
                           !.result = IF next = "done" THEN Cancelled ELSE NoOutcome]
           ELSE [ac EXCEPT !.pdp_calls = @ + 1,
                           !.pdp_args = [bearer_token |-> ac.bearer_token, action |-> ac.action,
                                         resource |-> ac.resource, context |-> ac.context],
                           !.pdp_outcome = Cancelled,
                           !.pc = "done",
                           !.result = Cancelled]
  /\ UNCHANGED <<now, revoked_jtis, revoked_ever, held, last, ev, storage, events, norm, dec>>

InitAC == InitToken

NextAC == Tick \/ Authorize \/ EdgeStep \/ PdpStep \/ Return

SpecAC == InitAC /\ [][NextAC]_vars

NextCancel == Tick \/ Authorize \/ EdgeStep \/ PdpStep \/ Cancel \/ Return

SpecCancel == InitAC /\ [][NextCancel]_vars

(***************************************************************************)
(* Properties of the Hybrid strategy (SpecAC)                              *)
(***************************************************************************)
CallArgs ==
  [bearer_token |-> ac.bearer_token, action |-> ac.action,
   resource |-> ac.resource, context |-> ac.context]

EdgeGavePolicy ==
  ac.edge_outcome.kind = "Principal" /\ ~policy_falsy(ac.edge_outcome.principal)

EdgeFellThrough ==
  /\ ac.edge_outcome.kind # "none"
  /\ ac.edge_outcome.kind # "Principal" \/ policy_falsy(ac.edge_outcome.principal)

\* C1: in a Hybrid call, once Edge has returned a Principal with a non-empty
\* policy, the call is over, PDP has been invoked zero times and the result
\* is exactly the Principal Edge returned.
C1_EdgePolicyReturnedDirectly ==
  (ac.strategy = "hybrid" /\ EdgeGavePolicy)
    => (ac.pc = "done" /\ ac.pdp_calls = 0 /\ ac.result = ac.edge_outcome)

C1_Witness ==
  /\ ac.strategy = "hybrid" /\ ac.edge_impl = "EdgeAccessControl"
  /\ EdgeGavePolicy /\ ac.pc = "done" /\ ac.result.kind = "Principal"

\* C2: in a Hybrid call Edge and PDP are each invoked at most once; when Edge
\* raised or returned a Principal with an empty or absent policy, the finished
\* call has invoked Edge once and PDP exactly once, with the caller's
\* bearer_token, action, resource and context, and its outcome is PDP's.
C2_FallbackExactlyOnce ==
  ac.strategy = "hybrid" =>
    /\ ac.edge_calls <= 1 /\ ac.pdp_calls <= 1
    /\ (ac.pc = "done" /\ EdgeFellThrough) =>
         /\ ac.edge_calls = 1
         /\ ac.pdp_calls = 1
         /\ ac.pdp_args = CallArgs
         /\ ac.pdp_outcome = PDPAccessControl_authorize(ac.bearer_token, ac.action, ac.resource,
                                                        ac.context, ac.pdp_response)
         /\ ac.result = ac.pdp_outcome

C2_Witness ==
  /\ ac.strategy = "hybrid" /\ ac.pc = "done"
  /\ ac.edge_outcome.kind = "Principal" /\ policy_falsy(ac.edge_outcome.principal)
  /\ ac.pdp_calls = 1 /\ ac.result.kind = "Principal"

PdpAllows(resp) ==
  resp.kind = "response" /\ resp.status < 400 /\ resp.json_ok /\ resp.allow = "true"

\* C3: a finished Hybrid call has failed only if its PDP fallback was made
\* and failed; a call whose Edge step raised (authentication failure, local
\* denial or anything else) is granted whenever PDP allows it.
C3_FailsOnlyIfPdpFails ==
  (ac.strategy = "hybrid" /\ ac.pc = "done") =>
    /\ ac.result.kind # "Principal" =>
         (ac.pdp_calls = 1 /\ ac.pdp_outcome.kind \notin {"Principal", "none"})
    /\ (ac.edge_outcome.kind # "Principal" /\ PdpAllows(ac.pdp_response)) =>
         ac.result.kind = "Principal"

C3_Witness ==
  /\ ac.strategy = "hybrid" /\ ac.pc = "done" /\ ac.edge_impl = "EdgeAccessControl"
  /\ ac.edge_outcome.kind = "AuthorizationError"
  /\ ac.result.kind = "Principal"

(***************************************************************************)
(* Properties of the PDP strategy (SpecAC)                                 *)
(***************************************************************************)
\* C10: when the decision endpoint answers with a non-success status and a
\* body carrying allow=false and a reason, the PDP call fails with
\* AccessDenied whose reason is the remote-supplied reason.
C10_RemoteReasonCarried ==
  (/\ ac.pdp_calls = 1
   /\ ac.pdp_response.kind = "response" /\ ac.pdp_response.status >= 400
   /\ ac.pdp_response.json_ok /\ ac.pdp_response.allow = "false"
   /\ ac.pdp_response.reason # "missing")
    => ac.pdp_outcome = Raised("AccessDenied", ac.pdp_response.reason)

IsAccessDenied(o) == o.kind = "AccessDenied"

\* C11: a PDP call returns a Principal only for a 2xx response whose body has
\* allow = true, and every other response with a readable body (non-2xx
\* status, allow false or missing) is raised as AccessDenied.
C11_PrincipalOnlyFor2xxAllow ==
  (ac.pdp_calls = 1 /\ ac.pdp_response.kind = "response") =>
    LET resp == ac.pdp_response
        granted == resp.status \in 200..299 /\ resp.json_ok /\ resp.allow = "true" IN
    /\ ac.pdp_outcome.kind = "Principal" => granted
    /\ (resp.json_ok /\ ~granted) => IsAccessDenied(ac.pdp_outcome)

PdpUnavailable(resp) == resp.kind # "response" \/ ~resp.json_ok

\* C12: a finished PDP-only call whose request timed out, could not connect
\* or got an unparsable response has failed with AccessDenied.
C12_PdpOnlyFailsClosedAsAccessDenied ==
  (ac.strategy = "pdp" /\ ac.pc = "done" /\ PdpUnavailable(ac.pdp_response)) =>
    IsAccessDenied(ac.result)

\* C13: every finished authorize call, of any of the three strategies, has
\* either returned a Principal or failed with AccessDenied.
C13_PrincipalOrAccessDenied ==
  ac.pc = "done" => (ac.result.kind = "Principal" \/ IsAccessDenied(ac.result))

(***************************************************************************)
(* Properties of the Edge strategy and its collaborators (SpecAC)          *)
(***************************************************************************)
EdgeRan == ac.edge_impl = "EdgeAccessControl" /\ ac.edge_calls = 1

\* C14: an Edge run returns a Principal only if the authenticator returned
\* one and the authorizer, invoked afterwards with it, approved; the
\* authorizer is not invoked when authentication failed; and the Principal
\* returned is the authenticator's.
C14_EdgeFailsClosed ==
  EdgeRan =>
    /\ ac.edge_outcome.kind = "Principal" =>
         /\ ac.authn.kind = "Principal"
         /\ ac.authz_calls = 1 /\ ac.authz = NoOutcome
         /\ ac.edge_outcome = ac.authn
    /\ ac.authn.kind # "Principal" => ac.authz_calls = 0
    /\ ac.authz_calls = 1 =>
         ac.authz = ClaimsAuthorizer_authorize(ac.authn.principal, ac.action, ac.resource.id)

C14_Witness ==
  /\ ac.strategy = "edge" /\ ac.pc = "done"
  /\ ac.authz_calls = 1 /\ ac.result.kind = "Principal"

\* What the evaluator says of the policy the authorizer was handed.
AuthorizerVerdict ==
  evaluate(IF ac.authn.principal.policy_is_none THEN EmptyPolicy ELSE ac.authn.principal.policy,
           ac.action, ac.resource.id)

\* C15: the authorizer raises AuthorizationError exactly when the evaluator
\* returns false for the principal's policy, the action and the resource id;
\* a principal without a policy is denied every action; and an approval
\* returns nothing.
C15_AuthorizerFollowsEvaluator ==
  ac.authz_calls = 1 =>
    /\ ac.authz.kind = "AuthorizationError" <=> AuthorizerVerdict = [kind |-> "ok", value |-> FALSE]
    /\ ac.authn.principal.policy_is_none => ac.authz.kind = "AuthorizationError"
    /\ AuthorizerVerdict = [kind |-> "ok", value |-> TRUE] => ac.authz = NoOutcome

C15_Witness ==
  /\ ac.authz_calls = 1 /\ ac.authn.principal.policy_is_none
  /\ ac.authz = Raised("AuthorizationError", "forbidden")

HasIdentity(o) == o.principal.tenant_id # None /\ o.principal.subject # None

\* C16: every Principal returned by the local authenticator, by PDP or as the
\* result of a call has both tenant_id and subject present.
C16_PrincipalHasIdentity ==
  \A o \in {ac.authn, ac.pdp_outcome, ac.result} : o.kind = "Principal" => HasIdentity(o)

IsPrefix(p, q) == Len(p) <= Len(q) /\ SubSeq(q, 1, Len(p)) = p

\* C17: the local authenticator returns a Principal only for a token whose
\* signature verifies, that carries exp and iat, that has not expired, whose
\* issuer starts with the expected issuer prefix and whose audience is the
\* expected audience.
C17_AuthenticatorChecksAllClaims ==
  [][(EdgeStep /\ ac'.authn.kind = "Principal") =>
       LET token == ac.bearer_token IN
       /\ token.form = "jws" /\ token.key = IamSecret
       /\ token.claims.has_exp /\ token.claims.has_iat
       /\ token.claims.exp * TicksPerSecond > now
       /\ IsPrefix(expected_iss_prefix, token.claims.iss)
       /\ token.claims.aud = expected_aud]_vars

(***************************************************************************)
(* Properties of the policy evaluator (SpecEval)                           *)
(***************************************************************************)
Evaluated == ev.out.kind # "pending"

\* The action name, compared without regard to letter case.
Recognized(action) == \E k \in DOMAIN HEXIAMActionNames : lower(HEXIAMActionNames[k]) = lower(action)
BitIndex(action) == CHOOSE k \in DOMAIN HEXIAMActionNames : lower(HEXIAMActionNames[k]) = lower(action)

\* The entry for the resource is absent or an integer bitmask.
IntegerEntry == ev.resource \in DOMAIN ev.policy => ev.policy[ev.resource].t = "int"
Mask == IF ev.resource \in DOMAIN ev.policy THEN ev.policy[ev.resource].n ELSE 0

\* Bit k (counted from 1) of mask is set.
BitSet(mask, k) == (mask \div (2 ^ (k - 1))) % 2 = 1

\* C8: for a recognized action name in any letter case and an integer (or
\* absent, hence 0) bitmask for the resource, evaluate returns true exactly
\* when the action's single bit is set in the bitmask.
C8_EvaluateIsBitTest ==
  (Evaluated /\ Recognized(ev.action) /\ IntegerEntry)
    => (ev.out.kind = "ok" /\ (ev.out.value <=> BitSet(Mask, BitIndex(ev.action))))

C8_Witness ==
  /\ Evaluated /\ ev.action = <<"w", "r", "i", "t", "e">>
  /\ ev.resource = "doc_1" /\ ev.resource \in DOMAIN ev.policy
  /\ ev.policy[ev.resource] = PyInt(3)
  /\ ev.out.value = TRUE

\* C9: for an action name that is not one of the 12 recognized actions,
\* evaluate returns false and never raises, whatever the policy mapping and
\* the resource.
C9_UnknownActionDenied ==
  (Evaluated /\ ~Recognized(ev.action)) => ev.out = [kind |-> "ok", value |-> FALSE]

(***************************************************************************)
(* Properties of the share-token service (SpecToken)                       *)
(***************************************************************************)
HeldJti == held.token.payload.jti

\* A step in which the held token, as issued, is decoded.
GenuineDecode ==
  /\ DecodeShareToken
  /\ last'.op = "decode" /\ last'.presented = "genuine"
  /\ held.token.form = "jws"

\* The held token passes jwt.decode now: good signature, exp claim in the future.
HeldTokenLive == jwt_decode(held.token, Secret, now).kind = "ok"

\* C4: while the ledger maps id to exp (the latest revoke(id, exp)) and
\* now < exp, every decode of a correctly signed token carrying id that has
\* not itself expired fails with the Revoked error, whatever exp the caller
\* passed to revoke.
C4_RevokedUntilExp ==
  [][(/\ GenuineDecode /\ HeldTokenLive
      /\ HeldJti \in DOMAIN revoked_jtis /\ now < revoked_jtis[HeldJti].ticks)
       => last'.kind = Revoked]_vars

\* C5: once now >= exp for a ledger entry id -> exp, the entry blocks nothing:
\* the next decode of a live token carrying id purges the entry and succeeds,
\* exactly as if id had never been revoked.
C5_ExpiredEntryInert ==
  [][(/\ GenuineDecode /\ HeldTokenLive
      /\ HeldJti \in DOMAIN revoked_jtis /\ revoked_jtis[HeldJti].ticks <= now)
       => (HeldJti \notin DOMAIN revoked_jtis' /\ last'.kind = "ok")]_vars

\* C6: decoding an encoded, never revoked token before its expiry (in the
\* whole seconds of its exp claim) succeeds and returns the encoded tenant,
\* document, link, token id, permissions and require_email, which
\* ShareTokenDependency maps to the same values in ShareTokenClaims.
C6_RoundTrip ==
  [][(GenuineDecode /\ HeldTokenLive /\ HeldJti \notin revoked_ever)
       => /\ last'.kind = "ok"
          /\ last'.payload.tid = held.args.tenant_id
          /\ last'.payload.sub = held.args.document_id
          /\ last'.payload.lid = held.args.link_id
          /\ last'.payload.jti = held.args.jti
          /\ last'.payload.perms = held.args.permissions
          /\ last'.payload.require_email = held.args.require_email
          /\ LET c == ShareTokenDependency(last').claims IN
               /\ c.tenant_id = held.args.tenant_id
               /\ c.document_id = held.args.document_id
               /\ c.link_id = held.args.link_id
               /\ c.jti = held.args.jti
               /\ c.permissions = held.args.permissions
               /\ c.require_email = held.args.require_email]_vars

\* C7: at every time now >= the token's expires_at decode fails, revoked or
\* not; before the expiry (in the whole seconds of the exp claim) decode of
\* the correctly signed token succeeds if its id has never been revoked.
C7_ExpiryIndependentOfLedger ==
  [][GenuineDecode
       => /\ now >= held.args.expires_at.ticks => last'.kind # "ok"
          /\ (HeldTokenLive /\ HeldJti \notin revoked_ever) => last'.kind = "ok"]_vars

\* What ShareTokenDependency reports for a token that has expired.
ExpiredReport ==
  ShareTokenDependency([kind |-> "ExpiredSignatureError", payload |-> NoPayload])

\* C18: a decode that failed because the token is revoked has an error kind
\* other than that of an expired token, and what ShareTokenDependency
\* reports for it differs from what it reports for an expired token.
C18_RevokedDistinctFromExpired ==
  (last.op = "decode" /\ last.kind = Revoked) =>
    /\ last.kind # "ExpiredSignatureError"
    /\ ShareTokenDependency(last) # ExpiredReport

\* The ledger keeps every entry it has with its value, except that entries
\* whose expiry has been reached may be gone, and has no entry it had not.
LedgerOnlyPurged ==
  /\ DOMAIN revoked_jtis' \subseteq DOMAIN revoked_jtis
  /\ \A k \in DOMAIN revoked_jtis' : revoked_jtis'[k] = revoked_jtis[k]
  /\ \A k \in (DOMAIN revoked_jtis) \ DOMAIN revoked_jtis' : revoked_jtis[k].ticks <= now

\* C20: a step that changes the ledger is a revoke_jti or a decode, so that
\* generate_jti, encode and the passing of time leave it as it is; and a
\* decode only removes entries whose expiry is at or before now, leaving
\* every other entry and its value.
C20_LedgerGrowsOnlyByRevoke ==
  [][revoked_jtis' # revoked_jtis => (DecodeShareToken /\ LedgerOnlyPurged) \/ RevokeJti]_vars

C20_Witness ==
  /\ last.op = "decode" /\ last.kind = "ok"
  /\ revoked_ever = Jtis
  /\ \E k \in DOMAIN revoked_jtis : revoked_jtis[k].ticks > now
  /\ DOMAIN revoked_jtis # Jtis

(***************************************************************************)
(* Properties of the share link lifecycle (SpecLink)                       *)
(***************************************************************************)
\* A revoke_share_link step for a link the tenant has.
RevokesExisting(tenant_id, link_id) ==
  /\ last'.op = "revoke_share_link" /\ last'.presented = link_id /\ last'.kind = "revoked"
  /\ get_share_link(storage, tenant_id, link_id).found
  /\ RevokeShareLink

\* The next decode after a revoke_share_link that found its link, of the
\* token generated earlier for that link.
DecodeAfterRevoke ==
  /\ last.op = "revoke_share_link" /\ last.kind = "revoked"
  /\ held.args.link_id = last.presented /\ held.token.form = "jws"
  /\ DecodeShareToken /\ last'.op = "decode" /\ last'.presented = "genuine"

\* C19: once revoke_share_link has run for a link the tenant has, the stored
\* record has revoked_at set and the ledger maps the link's jti to the link's
\* expires_at; and the next decode of the token generated earlier for that
\* link does not return its claims.
C19_RevokeShareLinkTakesEffect ==
  [][/\ \A tenant_id \in Tenants, link_id \in LinkIds :
          RevokesExisting(tenant_id, link_id) =>
            LET link == storage.share_links[link_id] IN
            /\ storage'.share_links[link_id].revoked_at.present
            /\ link.jti \in DOMAIN revoked_jtis'
            /\ revoked_jtis'[link.jti] = link.expires_at
     /\ DecodeAfterRevoke => last'.kind # "ok"]_vars

C19_Witness ==
  /\ last.op = "decode" /\ last.presented = "genuine" /\ last.kind # "ok"
  /\ held.token.form = "jws" /\ held.token.payload.exp * TicksPerSecond > now
  /\ held.args.link_id \in DOMAIN storage.share_links
  /\ storage.share_links[held.args.link_id].revoked_at.present
  /\ held.args.jti \in DOMAIN revoked_jtis

(***************************************************************************)
(* Further properties of the revocation ledger (SpecToken)                 *)
(***************************************************************************)
\* A step in which decode_share_token ran.
DecodeStep ==
  /\ last'.op = "decode" /\ now' = now /\ held' = held
  /\ DecodeShareToken

NoExpiredEntryLeft == \A k \in DOMAIN revoked_jtis' : revoked_jtis'[k].ticks > now

\* C21 as stated: after any decode, whatever its outcome, the ledger holds
\* no entry whose expiry is at or before now.
C21_NoExpiredEntryAfterAnyDecode ==
  [][DecodeStep => NoExpiredEntryLeft]_vars

\* C21: after a decode that returned the claims or failed because the token
\* is revoked, the ledger holds no entry whose expiry is at or before now.
C21_NoExpiredEntryAfterVerifiedDecode ==
  [][(DecodeStep /\ last'.kind \in {"ok", Revoked}) => NoExpiredEntryLeft]_vars

C21_Witness ==
  /\ last.op = "decode" /\ last.kind = Revoked
  /\ revoked_ever = Jtis
  /\ DOMAIN revoked_jtis = {HeldJti}

(***************************************************************************)
(* Properties of an unsynchronized decode and revoke (SpecRace)            *)
(***************************************************************************)
\* C22: whatever the interleaving of the steps of a decode with revoke_jti,
\* the purge removes no entry but one whose expiry is at or before now, so
\* an entry that a revoke inserted or refreshed with a later expiry stays.
C22_PurgeNeverLosesRevocation ==
  [][(dec.pc = "pop" /\ PopExpired) =>
       \A k \in (DOMAIN revoked_jtis) \ DOMAIN revoked_jtis' : revoked_jtis[k].ticks <= now]_vars

(***************************************************************************)
(* Properties of cancellation (SpecCancel)                                 *)
(***************************************************************************)
\* C23: in a Hybrid call cancelled while the edge step was pending, PDP is
\* not invoked and the call has ended with the cancellation; in one
\* cancelled while the PDP request was pending, the call has ended with the
\* cancellation; in neither is a Principal returned.
C23_CancellationPropagates ==
  ac.strategy = "hybrid" =>
    /\ ac.edge_outcome = Cancelled =>
         (ac.pdp_calls = 0 /\ ac.pc = "done" /\ ac.result = Cancelled)
    /\ ac.pdp_outcome = Cancelled => (ac.pc = "done" /\ ac.result = Cancelled)

C23_Witness ==
  /\ ac.strategy = "hybrid" /\ ac.pc = "done"
  /\ ac.edge_outcome = Cancelled /\ ac.result = Cancelled

(***************************************************************************)
(* Properties of the scope and role normalization (SpecNorm)               *)
(***************************************************************************)
\* C24: from the same scope and role claims the local authenticator and the
\* PDP normalization build the same scopes and roles; no scope is the empty
\* string, there is none when the claim is absent or empty, and roles holds
\* the role when one is present and is empty otherwise.
C24_SameScopesAndRoles ==
  norm.pc = "done" =>
    /\ norm.local = norm.pdp
    /\ \A i \in DOMAIN norm.local.scopes : norm.local.scopes[i] # <<>>
    /\ get_or_empty(norm.scope) = <<>> => norm.local.scopes = <<>>
    /\ norm.local.roles = IF norm.role.present /\ norm.role.value # <<>>
                          THEN <<norm.role.value>> ELSE <<>>

(***************************************************************************)
(* Further properties of the share link lifecycle (SpecLink)               *)
(***************************************************************************)
\* The tenant has no link of that id.
NoSuchLink(tenant_id, link_id) ==
  \/ link_id \notin DOMAIN storage.share_links
  \/ storage.share_links[link_id].tenant_id # tenant_id

\* What decoding the token of a stored link would yield.
DecodeOutcomeOf(link, ledger, t) ==
  LET r == decode_share_token(generate_share_token(link), ledger, t) IN
  [kind |-> r.kind, payload |-> r.payload]

\* C25: revoke_share_link for a link id that does not exist, or whose link
\* belongs to another tenant, leaves every link record, the ledger and the
\* published events as they were, and the token of every link decodes to
\* what it did.
C25_RevokeOfNoLinkChangesNothing ==
  [][\A tenant_id \in Tenants, link_id \in LinkIds :
       (last'.op = "revoke_share_link" /\ last'.presented = link_id
        /\ NoSuchLink(tenant_id, link_id) /\ RevokeShareLinkOf(tenant_id, link_id)) =>
         /\ storage' = storage
         /\ revoked_jtis' = revoked_jtis
         /\ events' = events
         /\ \A k \in DOMAIN storage.share_links :
              DecodeOutcomeOf(storage'.share_links[k], revoked_jtis', now')
                = DecodeOutcomeOf(storage.share_links[k], revoked_jtis, now)]_vars

C25_Witness ==
  /\ last.op = "revoke_share_link" /\ last.kind = "no such link"
  /\ last.presented \in DOMAIN storage.share_links
  /\ ~storage.share_links[last.presented].revoked_at.present
  /\ Event(storage.share_links[last.presented].tenant_id, "link.created", last.presented) \in events

\* A step in which the held token, as issued, is decoded.
HeldTokenDecoded ==
  /\ last'.op = "decode" /\ last'.presented = "genuine" /\ held.token.form = "jws"
  /\ now' = now /\ held' = held
  /\ DecodeShareToken

HeldLink == storage.share_links[held.args.link_id]

\* C27: once some link has been revoked, the decode of the unexpired token
\* of another link, itself never revoked, returns that token's claims.
C27_RevocationIsolatedPerJti ==
  [][(HeldTokenDecoded /\ HeldTokenLive
      /\ revoked_ever # {} /\ HeldJti \notin revoked_ever)
       => (last'.kind = "ok" /\ last'.payload = held.token.payload)]_vars

\* C28: a decode of a token of a link that revoke_share_link has revoked,
\* at whatever later time and whether the token was generated before or
\* after the revocation, does not return the claims.
C28_RevokedLinkNeverAccepted ==
  [][(HeldTokenDecoded /\ HeldLink.revoked_at.present) => last'.kind # "ok"]_vars

C28_Witness ==
  /\ last.op = "decode" /\ last.presented = "genuine" /\ last.kind # "ok"
  /\ held.token.form = "jws" /\ HeldTokenLive
  /\ HeldLink.revoked_at.present /\ HeldLink.revoked_at.value.ticks < now

(***************************************************************************)
(* Share tokens and tenant credentials (SpecToken)                         *)
(***************************************************************************)
\* C26: TenantAuthDependency, handed a share token as the bearer credential,
\* answers 401 and yields no TenantPrincipal.
C26_ShareTokenIsNoTenantCredential ==
  (last.op = "decode" /\ last.presented = "genuine" /\ held.token.form = "jws") =>
    TenantAuthDependency(TRUE, last).status = 401

(***************************************************************************)
(* Edge without a resource, and the policy of an Edge principal (SpecAC)   *)
(***************************************************************************)
Denials ==
  {"DecodeError", "InvalidSignatureError", "MissingRequiredClaimError", "ExpiredSignatureError",
   "InvalidAudienceError", "AuthorizationError", "AccessDenied"}

\* C29: an Edge run without a resource ends in an authentication or an
\* authorization denial, and so a Hybrid call without a resource reaches
\* PDP only after such a denial.
C29_EdgeWithoutResourceDenies ==
  (EdgeRan /\ ~ac.resource.present) => ac.edge_outcome.kind \in Denials

\* C30: every Principal that Edge returns has a non-empty policy whose entry
\* for resource.id has the bit of the action; hence a Hybrid call over Edge
\* that reached PDP did so after Edge raised.
C30_EdgePrincipalHasGrantingPolicy ==
  EdgeRan =>
    /\ ac.edge_outcome.kind = "Principal" =>
         LET p == ac.edge_outcome.principal IN
         /\ ~policy_falsy(p)
         /\ ac.resource.id \in DOMAIN p.policy
         /\ Recognized(ac.action)
         /\ py_int(p.policy[ac.resource.id]).ok
         /\ BitSet(py_int(p.policy[ac.resource.id]).n, BitIndex(ac.action))
    /\ (ac.strategy = "hybrid" /\ (ac.pc = "pdp" \/ ac.pdp_calls = 1)) =>
         ac.edge_outcome.kind # "Principal"

C30_Witness ==
  /\ EdgeRan /\ ac.strategy = "hybrid" /\ ac.pc = "done"
  /\ ac.edge_outcome.kind = "Principal" /\ ac.pdp_calls = 0

====
